---- MODULE Spec2Model ----
(***************************************************************************)
(* AI Persona Builder API (src/main.py, src/schemas.py).                   *)
(*                                                                         *)
(* The state is the document store (five collections, each a sequence of   *)
(* documents in insertion order), the store's identifier generator, and    *)
(* the last HTTP request and its response.  One action per route handler.  *)
(* Documents and JSON-like values are tagged pairs <<tag, payload>> so     *)
(* that the type tests of the code (isinstance) can be written down.       *)
(* The store is modelled connected; the `database` module itself is not    *)
(* part of the sources and is modelled from its usage contract.            *)
(***************************************************************************)
EXTENDS Integers, Sequences, FiniteSets, TLC

VARIABLES db, nextId, req, resp, encIn, encOut, encTwice, encPc

vars == <<db, nextId, req, resp, encIn, encOut, encTwice, encPc>>
storeVars == <<db, nextId, req, resp>>
encVars == <<encIn, encOut, encTwice, encPc>>

(***************************************************************************)
(* Bounds of the model.                                                    *)
(***************************************************************************)
\* identifiers the store hands out while the whole API is exercised
MaxDocs == 3
\* identifiers the store hands out while chat is exercised
MaxChatDocs == 3
\* personas created while the listing is exercised
MaxPersonas == 3
\* longest sequence in the values the encoder is applied to
MaxSeqLen == 2

(***************************************************************************)
(* Values: Python / BSON values as tagged pairs.                           *)
(***************************************************************************)
Str(s) == <<"str", s>>
Num(n) == <<"num", n>>
Bool(b) == <<"bool", b>>
Oid(n) == <<"oid", n>>
List(s) == <<"list", s>>
Dict(f) == <<"dict", f>>
None == <<"none", 0>>

Tag(v) == v[1]
Val(v) == v[2]
IsStr(v) == Tag(v) = "str"
IsOid(v) == Tag(v) = "oid"
IsList(v) == Tag(v) = "list"
IsDict(v) == Tag(v) = "dict"
IsNone(v) == Tag(v) = "none"

\* Python truthiness of a value (`if x`, `if not x`)
Truthy(v) ==
    CASE IsNone(v) -> FALSE
      [] IsStr(v) -> Val(v) /= ""
      [] IsList(v) -> Len(Val(v)) > 0
      [] IsDict(v) -> DOMAIN Val(v) /= {}
      [] Tag(v) = "bool" -> Val(v)
      [] Tag(v) = "num" -> Val(v) /= 0
      [] OTHER -> TRUE

\* dict.get(key, default)
Get(d, k, default) == IF k \in DOMAIN Val(d) THEN Val(d)[k] ELSE default

(***************************************************************************)
(* bson.ObjectId: a 12-byte value, here the natural number it denotes.     *)
(* str(oid) renders 24 lowercase hexadecimal digits; ObjectId(s) accepts   *)
(* exactly the strings of 24 hexadecimal digits and raises InvalidId on    *)
(* every other string.                                                     *)
(***************************************************************************)
OidHexLen == 24
HexLower == "0123456789abcdef"
HexUpper == "0123456789ABCDEF"

CharAt(s, i) == SubSeq(s, i, i)

HexDigit(d) == CharAt(HexLower, d + 1)

RECURSIVE ToHex(_, _)
ToHex(n, width) ==
    IF width = 0 THEN ""
    ELSE ToHex(n \div 16, width - 1) \o HexDigit(n % 16)

\* str(ObjectId)
OidStr(n) == ToHex(n, OidHexLen)

IsHexChar(c) == \E d \in 1..16 : c = CharAt(HexLower, d) \/ c = CharAt(HexUpper, d)

HexCharVal(c) ==
    (CHOOSE d \in 1..16 : c = CharAt(HexLower, d) \/ c = CharAt(HexUpper, d)) - 1

\* bson.ObjectId.is_valid for a str argument
OidValid(s) == Len(s) = OidHexLen /\ \A i \in 1..Len(s) : IsHexChar(CharAt(s, i))

RECURSIVE HexVal(_)
HexVal(s) ==
    IF Len(s) = 0 THEN 0
    ELSE 16 * HexVal(SubSeq(s, 1, Len(s) - 1)) + HexCharVal(CharAt(s, Len(s)))

\* ObjectId(s) for a valid s
OidParse(s) == HexVal(s)

(***************************************************************************)
(* ObjectIdEncoder.encode                                                  *)
(***************************************************************************)
\* encode with map entries kept only when their value is truthy
RECURSIVE EncodeSkipFalsy(_)
EncodeSkipFalsy(doc) ==
    IF IsList(doc)
    THEN List([i \in 1..Len(Val(doc)) |-> EncodeSkipFalsy(Val(doc)[i])])
    ELSE IF IsDict(doc)
    THEN Dict([k \in {x \in DOMAIN Val(doc) : Truthy(Val(doc)[x])} |->
                 LET v == Val(doc)[k] IN
                 IF IsOid(v) THEN Str(OidStr(Val(v)))
                 ELSE IF IsList(v) \/ IsDict(v) THEN EncodeSkipFalsy(v)
                 ELSE v])
    ELSE doc

RECURSIVE Encode(_)
Encode(doc) ==
    IF IsList(doc)
    THEN List([i \in 1..Len(Val(doc)) |-> Encode(Val(doc)[i])])
    ELSE IF IsDict(doc)
    THEN Dict([k \in DOMAIN Val(doc) |->
                 LET v == Val(doc)[k] IN
                 IF IsOid(v) THEN Str(OidStr(Val(v)))
                 ELSE IF IsList(v) \/ IsDict(v) THEN Encode(v)
                 ELSE v])
    ELSE doc

(***************************************************************************)
(* Pydantic models: a model is the sequence of its fields in declaration   *)
(* order, each [name, type, required, default].                            *)
(***************************************************************************)
SourceTypes == {"text", "link", "file", "video", "image", "slides", "website"}
Visibilities == {"private", "unlisted", "public"}
PersonaStatuses == {"draft", "training", "trained", "error"}
JobStatuses == {"queued", "running", "completed", "failed"}
DefaultTone == "helpful, concise, expert"

Field(name, type, required, default) ==
    [name |-> name, type |-> type, required |-> required, default |-> default]

\* whether a value is accepted for a field of the given declared type
TypeOk(type, v) ==
    CASE type = "str" -> IsStr(v)
      [] type = "optstr" -> IsStr(v) \/ IsNone(v)
      [] type = "strlist" -> IsList(v) /\ \A i \in 1..Len(Val(v)) : IsStr(Val(v)[i])
      [] type = "optint" -> Tag(v) = "num" \/ IsNone(v)
      [] type = "optfloat_ge0" -> (Tag(v) = "num" /\ Val(v) >= 0) \/ IsNone(v)
      [] type = "bool" -> Tag(v) = "bool"
      [] type = "dict" -> IsDict(v)
      [] type = "sourcetype" -> IsStr(v) /\ Val(v) \in SourceTypes
      [] type = "visibility" -> IsStr(v) /\ Val(v) \in Visibilities
      [] type = "personastatus" -> IsStr(v) /\ Val(v) \in PersonaStatuses
      [] type = "jobstatus" -> IsStr(v) /\ Val(v) \in JobStatuses

ProfessionalCreate == <<
    Field("name", "str", TRUE, None),
    Field("email", "str", TRUE, None),
    Field("bio", "optstr", FALSE, None),
    Field("avatar_url", "optstr", FALSE, None),
    Field("website", "optstr", FALSE, None),
    Field("specialties", "strlist", FALSE, List(<<>>)) >>

\* the request model with the status field of the stored model
PersonaCreateWithStatus == <<
    Field("owner_email", "str", TRUE, None),
    Field("title", "str", TRUE, None),
    Field("description", "optstr", FALSE, None),
    Field("tone", "optstr", FALSE, Str(DefaultTone)),
    Field("specialties", "strlist", FALSE, List(<<>>)),
    Field("status", "personastatus", FALSE, Str("draft")),
    Field("visibility", "visibility", FALSE, Str("private")),
    Field("price_usd", "optfloat_ge0", FALSE, None) >>

PersonaCreate == <<
    Field("owner_email", "str", TRUE, None),
    Field("title", "str", TRUE, None),
    Field("description", "optstr", FALSE, None),
    Field("tone", "optstr", FALSE, Str(DefaultTone)),
    Field("specialties", "strlist", FALSE, List(<<>>)),
    Field("visibility", "visibility", FALSE, Str("private")),
    Field("price_usd", "optfloat_ge0", FALSE, None) >>

SourceCreate == <<
    Field("persona_id", "str", TRUE, None),
    Field("type", "sourcetype", TRUE, None),
    Field("title", "optstr", FALSE, None),
    Field("url", "optstr", FALSE, None),
    Field("content", "optstr", FALSE, None),
    Field("file_name", "optstr", FALSE, None),
    Field("file_size", "optint", FALSE, None),
    Field("metadata", "dict", FALSE, Dict(<<>>)) >>

TrainRequest == <<
    Field("persona_id", "str", TRUE, None),
    Field("notes", "optstr", FALSE, None) >>

ChatRequest == <<
    Field("persona_id", "str", TRUE, None),
    Field("message", "str", TRUE, None) >>

Professional == <<
    Field("name", "str", TRUE, None),
    Field("email", "str", TRUE, None),
    Field("bio", "optstr", FALSE, None),
    Field("avatar_url", "optstr", FALSE, None),
    Field("website", "optstr", FALSE, None),
    Field("specialties", "strlist", FALSE, List(<<>>)),
    Field("is_active", "bool", FALSE, Bool(TRUE)) >>

Source == <<
    Field("persona_id", "str", TRUE, None),
    Field("type", "sourcetype", TRUE, None),
    Field("title", "optstr", FALSE, None),
    Field("url", "optstr", FALSE, None),
    Field("content", "optstr", FALSE, None),
    Field("file_name", "optstr", FALSE, None),
    Field("file_size", "optint", FALSE, None),
    Field("metadata", "dict", FALSE, Dict(<<>>)) >>

Persona == <<
    Field("owner_email", "str", TRUE, None),
    Field("title", "str", TRUE, None),
    Field("description", "optstr", FALSE, None),
    Field("tone", "optstr", FALSE, Str(DefaultTone)),
    Field("specialties", "strlist", FALSE, List(<<>>)),
    Field("status", "personastatus", FALSE, Str("draft")),
    Field("price_usd", "optfloat_ge0", FALSE, None),
    Field("visibility", "visibility", FALSE, Str("private")) >>

TrainingJob == <<
    Field("persona_id", "str", TRUE, None),
    Field("status", "jobstatus", FALSE, Str("queued")),
    Field("notes", "optstr", FALSE, None) >>

Conversation == <<
    Field("persona_id", "str", TRUE, None),
    Field("user_message", "str", TRUE, None),
    Field("response", "str", TRUE, None) >>

FieldNames(model) == {model[i].name : i \in 1..Len(model)}

\* BaseModel validation of a map of field values (unknown keys are ignored)
Validates(model, data) ==
    \A i \in 1..Len(model) :
        IF model[i].name \in DOMAIN data
        THEN TypeOk(model[i].type, data[model[i].name])
        ELSE ~model[i].required

\* BaseModel(**data).model_dump() for data that validates
Construct(model, data) ==
    [n \in FieldNames(model) |->
        LET i == CHOOSE j \in 1..Len(model) : model[j].name = n IN
        IF n \in DOMAIN data THEN data[n] ELSE model[i].default]

(***************************************************************************)
(* Text helpers: str.strip(), str.join(), f-string rendering.              *)
(***************************************************************************)
Whitespace == {" ", "\t", "\n", "\r", "\f"}

RECURSIVE LStrip(_)
LStrip(s) ==
    IF Len(s) > 0 /\ CharAt(s, 1) \in Whitespace
    THEN LStrip(SubSeq(s, 2, Len(s)))
    ELSE s

RECURSIVE RStrip(_)
RStrip(s) ==
    IF Len(s) > 0 /\ CharAt(s, Len(s)) \in Whitespace
    THEN RStrip(SubSeq(s, 1, Len(s) - 1))
    ELSE s

\* str.strip()
Strip(s) == RStrip(LStrip(s))

\* sep.join(items) for a sequence of str values
RECURSIVE Join(_, _)
Join(sep, items) ==
    IF Len(items) = 0 THEN ""
    ELSE IF Len(items) = 1 THEN Val(items[1])
    ELSE Val(items[1]) \o sep \o Join(sep, Tail(items))

\* how an f-string renders a value
PyStr(v) ==
    CASE IsStr(v) -> Val(v)
      [] IsNone(v) -> "None"

(***************************************************************************)
(* The document store: `database.create_document`, `get_documents` and the *)
(* driver calls `find_one`, `update_one` that main.py makes on `db`.       *)
(***************************************************************************)
Collections == {"professional", "persona", "source", "trainingjob", "conversation"}
DefaultLimit == 20

Min(a, b) == IF a < b THEN a ELSE b

\* create_document(collection, model): the store as it is after the insert
CreateDocument(d, coll, fields, id) ==
    [d EXCEPT ![coll] = Append(@, Dict(fields @@ ("_id" :> Oid(id))))]

Matches(doc, filt) ==
    \A k \in DOMAIN filt : k \in DOMAIN Val(doc) /\ Val(doc)[k] = filt[k]

\* get_documents(collection, filter, limit)
GetDocuments(d, coll, filt, limit) ==
    LET hits == SelectSeq(d[coll], LAMBDA doc : Matches(doc, filt))
    IN SubSeq(hits, 1, Min(limit, Len(hits)))

\* find_one with its filter dropped
FindOneUnfiltered(d, coll, filt) ==
    IF Len(d[coll]) = 0 THEN None ELSE d[coll][1]

\* db[coll].find_one(filter): the first match, or None
FindOne(d, coll, filt) ==
    LET hits == SelectSeq(d[coll], LAMBDA doc : Matches(doc, filt))
    IN IF Len(hits) = 0 THEN None ELSE hits[1]

\* the update as a replacement of the whole document
UpdateOneReplace(d, coll, filt, field, value) ==
    LET idx == {i \in 1..Len(d[coll]) : Matches(d[coll][i], filt)} IN
    IF idx = {} THEN d
    ELSE LET i == CHOOSE j \in idx : \A k \in idx : j <= k IN
         [d EXCEPT ![coll][i] = Dict(field :> value @@ "_id" :> Val(@)["_id"])]

\* db[coll].update_one(filter, {"$set": {field: value}}): the store afterwards
UpdateOne(d, coll, filt, field, value) ==
    LET idx == {i \in 1..Len(d[coll]) : Matches(d[coll][i], filt)} IN
    IF idx = {} THEN d
    ELSE LET i == CHOOSE j \in idx : \A k \in idx : j <= k IN
         [d EXCEPT ![coll][i] = Dict(field :> value @@ Val(@))]

(***************************************************************************)
(* Responses.                                                              *)
(***************************************************************************)
Response(code, body) == [code |-> code, body |-> Dict(body)]

\* raise HTTPException(status_code, detail)
HTTPException(code, detail) == Response(code, "detail" :> Str(detail))

\* FastAPI's answer to a body that fails the request model
RequestValidationError == Response(422, "detail" :> Str("validation error"))

\* the server's answer to an exception no handler catches
UnhandledException == Response(500, "detail" :> Str("Internal Server Error"))

Created(id) == Response(200, "id" :> Str(OidStr(id)) @@ "status" :> Str("created"))

Request(op, body) == [op |-> op, body |-> Dict(body)]

(***************************************************************************)
(* Mock reply of chat (main.py lines 212-224).                             *)
(***************************************************************************)
\* the reply with the message inserted as it came
ChatReplyUnstripped(persona, message) ==
    LET tone == Get(persona, "tone", Str(DefaultTone))
        title == Get(persona, "title", Str("Your AI Coach"))
        specialties == Get(persona, "specialties", List(<<>>))
        style_hint == "Tone: " \o PyStr(tone) \o ". "
        topic_hint == IF Truthy(specialties)
                      THEN "Expertise: " \o Join(", ", Val(specialties)) \o "."
                      ELSE ""
    IN "[" \o PyStr(title) \o "] " \o style_hint \o topic_hint \o " "
       \o "Here's my take: " \o message \o " -> "
       \o "Consider breaking this down into steps, validate with examples, and iterate."

ChatReply(persona, message) ==
    LET tone == Get(persona, "tone", Str(DefaultTone))
        title == Get(persona, "title", Str("Your AI Coach"))
        specialties == Get(persona, "specialties", List(<<>>))
        style_hint == "Tone: " \o PyStr(tone) \o ". "
        topic_hint == IF Truthy(specialties)
                      THEN "Expertise: " \o Join(", ", Val(specialties)) \o "."
                      ELSE ""
    IN "[" \o PyStr(title) \o "] " \o style_hint \o topic_hint \o " "
       \o "Here's my take: " \o Strip(message) \o " -> "
       \o "Consider breaking this down into steps, validate with examples, and iterate."

(***************************************************************************)
(* Route handlers.  Each takes the JSON body (or the query parameters) as  *)
(* a map from field names to values; FastAPI validates it against the      *)
(* request model before the handler's own code runs.                       *)
(***************************************************************************)
\* GET /
read_root ==
    /\ req' = Request("read_root", <<>>)
    /\ resp' = Response(200, "message" :> Str("AI Persona Builder Backend Running"))
    /\ UNCHANGED <<db, nextId, encVars>>

\* GET /api/hello
hello ==
    /\ req' = Request("hello", <<>>)
    /\ resp' = Response(200, "message" :> Str("Hello from the backend API!"))
    /\ UNCHANGED <<db, nextId, encVars>>

Serialize(name, model) ==
    Dict("name" :> Str(name)
         @@ "fields" :> List([i \in 1..Len(model) |-> Str(model[i].name)]))

\* GET /schema
get_schema ==
    /\ req' = Request("get_schema", <<>>)
    /\ resp' = Response(200, "models" :> List(<<
                   Serialize("Professional", Professional),
                   Serialize("Persona", Persona),
                   Serialize("Source", Source),
                   Serialize("TrainingJob", TrainingJob),
                   Serialize("Conversation", Conversation) >>))
    /\ UNCHANGED <<db, nextId, encVars>>

\* POST /api/professionals
create_professional(body) ==
    /\ req' = Request("create_professional", body)
    /\ IF ~Validates(ProfessionalCreate, body)
       THEN resp' = RequestValidationError /\ UNCHANGED <<db, nextId>>
       ELSE /\ LET payload == Construct(ProfessionalCreate, body)
                   prof == Construct(Professional, payload)
               IN db' = CreateDocument(db, "professional", prof, nextId)
            /\ nextId' = nextId + 1
            /\ resp' = Created(nextId)
    /\ UNCHANGED encVars

\* POST /api/personas
create_persona(body) ==
    /\ req' = Request("create_persona", body)
    /\ IF ~Validates(PersonaCreate, body)
       THEN resp' = RequestValidationError /\ UNCHANGED <<db, nextId>>
       ELSE /\ LET payload == Construct(PersonaCreate, body)
                   persona == Construct(Persona, payload)
               IN db' = CreateDocument(db, "persona", persona, nextId)
            /\ nextId' = nextId + 1
            /\ resp' = Created(nextId)
    /\ UNCHANGED encVars

\* the listing with the limit not passed on
list_personas_unlimited(query) ==
    /\ req' = Request("list_personas", query)
    /\ LET owner_email == IF "owner_email" \in DOMAIN query
                          THEN query["owner_email"] ELSE None
           filt == IF Truthy(owner_email)
                   THEN "owner_email" :> owner_email ELSE <<>>
           docs == GetDocuments(db, "persona", filt, DefaultLimit)
       IN resp' = Response(200, "items" :> Encode(List(docs)))
    /\ UNCHANGED <<db, nextId, encVars>>

\* GET /api/personas
list_personas(query) ==
    /\ req' = Request("list_personas", query)
    /\ LET owner_email == IF "owner_email" \in DOMAIN query
                          THEN query["owner_email"] ELSE None
           limit == IF "limit" \in DOMAIN query
                    THEN Val(query["limit"]) ELSE DefaultLimit
           filt == IF Truthy(owner_email)
                   THEN "owner_email" :> owner_email ELSE <<>>
           docs == GetDocuments(db, "persona", filt, limit)
       IN resp' = Response(200, "items" :> Encode(List(docs)))
    /\ UNCHANGED <<db, nextId, encVars>>

\* add_source without its persona_id check
add_source_unchecked(body) ==
    /\ req' = Request("add_source", body)
    /\ IF ~Validates(SourceCreate, body)
       THEN resp' = RequestValidationError /\ UNCHANGED <<db, nextId>>
       ELSE LET payload == Construct(SourceCreate, body) IN
            /\ db' = CreateDocument(db, "source", Construct(Source, payload), nextId)
            /\ nextId' = nextId + 1
            /\ resp' = Created(nextId)
    /\ UNCHANGED encVars

\* POST /api/sources
add_source(body) ==
    /\ req' = Request("add_source", body)
    /\ IF ~Validates(SourceCreate, body)
       THEN resp' = RequestValidationError /\ UNCHANGED <<db, nextId>>
       ELSE LET payload == Construct(SourceCreate, body) IN
            IF ~Truthy(payload["persona_id"])
            THEN /\ resp' = HTTPException(400, "persona_id required")
                 /\ UNCHANGED <<db, nextId>>
            ELSE /\ db' = CreateDocument(db, "source", Construct(Source, payload), nextId)
                 /\ nextId' = nextId + 1
                 /\ resp' = Created(nextId)
    /\ UNCHANGED encVars

\* start_training with the persona update outside any try block
start_training_uncaught(body) ==
    /\ req' = Request("start_training", body)
    /\ IF ~Validates(TrainRequest, body)
       THEN resp' = RequestValidationError /\ UNCHANGED <<db, nextId>>
       ELSE /\ LET payload == Construct(TrainRequest, body)
                   job == Construct(TrainingJob,
                              "persona_id" :> payload["persona_id"]
                              @@ "status" :> Str("queued")
                              @@ "notes" :> payload["notes"])
                   inserted == CreateDocument(db, "trainingjob", job, nextId)
                   pid == Val(payload["persona_id"])
               IN IF OidValid(pid)
                  THEN /\ db' = UpdateOne(inserted, "persona",
                                          "_id" :> Oid(OidParse(pid)),
                                          "status", Str("training"))
                       /\ resp' = Response(200, "job_id" :> Str(OidStr(nextId))
                                                @@ "status" :> Str("queued"))
                  ELSE db' = inserted /\ resp' = UnhandledException
            /\ nextId' = nextId + 1
    /\ UNCHANGED encVars

\* POST /api/train
start_training(body) ==
    /\ req' = Request("start_training", body)
    /\ IF ~Validates(TrainRequest, body)
       THEN resp' = RequestValidationError /\ UNCHANGED <<db, nextId>>
       ELSE /\ LET payload == Construct(TrainRequest, body)
                   job == Construct(TrainingJob,
                              "persona_id" :> payload["persona_id"]
                              @@ "status" :> Str("queued")
                              @@ "notes" :> payload["notes"])
                   inserted == CreateDocument(db, "trainingjob", job, nextId)
                   pid == Val(payload["persona_id"])
               IN \* ObjectId(pid) raises InvalidId inside the try block
                  db' = IF OidValid(pid)
                        THEN UpdateOne(inserted, "persona",
                                       "_id" :> Oid(OidParse(pid)),
                                       "status", Str("training"))
                        ELSE inserted
            /\ nextId' = nextId + 1
            /\ resp' = Response(200, "job_id" :> Str(OidStr(nextId))
                                     @@ "status" :> Str("queued"))
    /\ UNCHANGED encVars

\* POST /api/chat
chat(body) ==
    /\ req' = Request("chat", body)
    /\ IF ~Validates(ChatRequest, body)
       THEN resp' = RequestValidationError /\ UNCHANGED <<db, nextId>>
       ELSE LET payload == Construct(ChatRequest, body)
                pid == Val(payload["persona_id"])
                message == Val(payload["message"])
            IN
            IF ~OidValid(pid)
            THEN \* ObjectId(pid) raises InvalidId; nothing catches it
                 resp' = UnhandledException /\ UNCHANGED <<db, nextId>>
            ELSE LET persona == FindOne(db, "persona", "_id" :> Oid(OidParse(pid))) IN
                 IF ~Truthy(persona)
                 THEN /\ resp' = HTTPException(404, "Persona not found")
                      /\ UNCHANGED <<db, nextId>>
                 ELSE /\ LET reply == ChatReply(persona, message)
                             conv == Construct(Conversation,
                                         "persona_id" :> payload["persona_id"]
                                         @@ "user_message" :> payload["message"]
                                         @@ "response" :> Str(reply))
                         IN /\ db' = CreateDocument(db, "conversation", conv, nextId)
                            /\ resp' = Response(200, "response" :> Str(reply))
                      /\ nextId' = nextId + 1
    /\ UNCHANGED encVars

(***************************************************************************)
(* ObjectIdEncoder.encode as a process: applied once, then to its result.  *)
(***************************************************************************)
encode_once ==
    /\ encPc = "start"
    /\ encOut' = Encode(encIn)
    /\ encPc' = "once"
    /\ UNCHANGED <<encIn, encTwice, storeVars>>

encode_twice ==
    /\ encPc = "once"
    /\ encTwice' = Encode(encOut)
    /\ encPc' = "twice"
    /\ UNCHANGED <<encIn, encOut, storeVars>>

(***************************************************************************)
(* Requests the model sends.                                               *)
(***************************************************************************)
MalformedIds == {"", "not-an-id", "00000000000000000000000"}

FullPersona(owner) ==
    "owner_email" :> Str(owner) @@ "title" :> Str("Career Coach")
    @@ "tone" :> Str("direct, supportive")
    @@ "specialties" :> List(<<Str("resumes"), Str("interviews")>>)

PlainPersona(owner) == "owner_email" :> Str(owner) @@ "title" :> Str("Coach")

InvalidPersonaBodies ==
    { "owner_email" :> Str("a@x.com"),
      PlainPersona("a@x.com") @@ "price_usd" :> Num(-5) }

ProfessionalBodies ==
    { "name" :> Str("Ada") @@ "email" :> Str("a@x.com"),
      "name" :> Str("Ada") }

PersonaBodies ==
    { FullPersona("a@x.com"),
      PlainPersona("b@x.com") @@ "status" :> Str("trained") }
    \cup InvalidPersonaBodies

SourceBodies ==
    { "persona_id" :> Str(OidStr(1)) @@ "type" :> Str("text"),
      "persona_id" :> Str("not-an-id") @@ "type" :> Str("link"),
      "persona_id" :> Str("") @@ "type" :> Str("text"),
      "persona_id" :> Str("") @@ "type" :> Str("podcast"),
      "persona_id" :> Str("") @@ "type" :> Str("text") @@ "file_size" :> Str("big"),
      "persona_id" :> Str(OidStr(1)) @@ "type" :> Str("podcast"),
      "type" :> Str("text"),
      "persona_id" :> None @@ "type" :> Str("text") }

TrainBodies ==
    {"persona_id" :> Str(p) : p \in {OidStr(1), OidStr(2), "", "not-an-id"}}
    \cup {"notes" :> Str("n")}

ChatBodies ==
    {"persona_id" :> Str(p) @@ "message" :> Str(" hi ") : p \in {OidStr(1), OidStr(2), ""}}

ListQueries == {<<>>, "owner_email" :> Str("a@x.com")}

(***************************************************************************)
(* The service, started on an empty store.  The handlers are unbounded;    *)
(* each specification stops posting once the store has handed out its      *)
(* bound of identifiers.                                                   *)
(***************************************************************************)
NoRequest == Request("none", <<>>)
NoResponse == Response(0, <<>>)

EncIdle ==
    /\ encIn = None /\ encOut = None /\ encTwice = None /\ encPc = "idle"

EmptyStore == [c \in Collections |-> <<>>]

Init ==
    /\ db = EmptyStore
    /\ nextId = 1
    /\ req = NoRequest
    /\ resp = NoResponse
    /\ EncIdle

Room(n) == nextId <= n

Next ==
    \/ read_root
    \/ hello
    \/ get_schema
    \/ \E body \in ProfessionalBodies : Room(MaxDocs) /\ create_professional(body)
    \/ \E body \in PersonaBodies : Room(MaxDocs) /\ create_persona(body)
    \/ \E query \in ListQueries : list_personas(query)
    \/ \E body \in SourceBodies : Room(MaxDocs) /\ add_source(body)
    \/ \E body \in TrainBodies : Room(MaxDocs) /\ start_training(body)
    \/ \E body \in ChatBodies : Room(MaxDocs) /\ chat(body)

Spec == Init /\ [][Next]_vars

(***************************************************************************)
(* Chat against a store that already holds a persona written before the    *)
(* present schema: it has no title, tone or specialties.                   *)
(***************************************************************************)
LegacyPersona ==
    Dict("_id" :> Oid(10) @@ "owner_email" :> Str("a@x.com") @@ "status" :> Str("draft"))

ChatIds == {OidStr(i) : i \in 1..MaxChatDocs} \cup {"00000000000000000000000A"}

Messages == {"hi", "  help me rewrite my resume  ", " \t\n"}

RichChatBodies ==
    {"persona_id" :> Str(p) @@ "message" :> Str(m) : p \in ChatIds, m \in Messages}
    \cup {"persona_id" :> Str(p) @@ "message" :> Str("hi") :
             p \in MalformedIds \cup {"00000000000000000000000a"}}
    \cup {"persona_id" :> Str(OidStr(1))}

\* the second persona is created with an explicit null tone
ChatPersonaBodies ==
    {FullPersona("a@x.com"), PlainPersona("b@x.com") @@ "tone" :> None}

InitChat ==
    /\ db = [EmptyStore EXCEPT !["persona"] = <<LegacyPersona>>]
    /\ nextId = 1
    /\ req = NoRequest
    /\ resp = NoResponse
    /\ EncIdle

NextChat ==
    \/ \E body \in ChatPersonaBodies : Room(MaxChatDocs) /\ create_persona(body)
    \/ \E body \in RichChatBodies : Room(MaxChatDocs) /\ chat(body)

SpecChat == InitChat /\ [][NextChat]_vars

(***************************************************************************)
(* Listing personas after persona creations.                               *)
(***************************************************************************)
Owners == {"a@x.com", "b@x.com"}

ListPersonaBodies ==
    {FullPersona(o) : o \in Owners} \cup {PlainPersona(o) : o \in Owners}

RichListQueries ==
    LET owners == {<<>>} \cup {"owner_email" :> Str(o) : o \in Owners \cup {"", "c@x.com"}}
        limits == {<<>>} \cup {"limit" :> Num(n) : n \in 1..MaxPersonas}
    IN {o @@ l : o \in owners, l \in limits}

NextList ==
    \/ \E body \in ListPersonaBodies : Room(MaxPersonas) /\ create_persona(body)
    \/ \E query \in RichListQueries : list_personas(query)

SpecList == Init /\ [][NextList]_vars

(***************************************************************************)
(* The encoder on every value of two levels of nesting.                    *)
(***************************************************************************)
EncScalars == {Oid(1), Str("a"), None}
EncKeys == {"_id", "k"}

SeqsOver(S) == UNION {[1..n -> S] : n \in 0..MaxSeqLen}
DictsOver(S) == UNION {[D -> S] : D \in SUBSET EncKeys}

Nest(S) ==
    EncScalars \cup {List(q) : q \in SeqsOver(S)} \cup {Dict(f) : f \in DictsOver(S)}

EncValues == Nest(Nest(EncScalars))

InitEncode ==
    /\ db = EmptyStore
    /\ nextId = 1
    /\ req = NoRequest
    /\ resp = NoResponse
    /\ encIn \in EncValues
    /\ encOut = None
    /\ encTwice = None
    /\ encPc = "start"

NextEncode == encode_once \/ encode_twice

SpecEncode == InitEncode /\ [][NextEncode]_vars

(***************************************************************************)
(* Properties.                                                             *)
(***************************************************************************)
Body(r) == Val(r.body)
Personas(d) == d["persona"]
StatusOf(doc) == Val(doc)["status"]
HasStrField(fields, k) == k \in DOMAIN fields /\ IsStr(fields[k])

\* the positions of the personas an identifier string resolves to
Resolves(d, pid) ==
    {i \in 1..Len(Personas(d)) :
        OidValid(pid) /\ Val(Personas(d)[i])["_id"] = Oid(OidParse(pid))}

StatusStep(d, e, rq) ==
    /\ Len(Personas(e)) >= Len(Personas(d))
    /\ \A i \in 1..Len(Personas(e)) :
          StatusOf(Personas(e)[i]) \in {Str("draft"), Str("training")}
    /\ \A i \in 1..Len(Personas(d)) :
          StatusOf(Personas(d)[i]) = Str("training")
             => StatusOf(Personas(e)[i]) = Str("training")
    /\ \A i \in Len(Personas(d)) + 1..Len(Personas(e)) :
          StatusOf(Personas(e)[i]) = Str("draft")
    /\ rq.op = "start_training" /\ HasStrField(Body(rq), "persona_id")
          => \A i \in Resolves(d, Val(Body(rq)["persona_id"])) :
                StatusOf(Personas(e)[i]) = Str("training")

\* C1: Persona.status state machine.  Over every step of the service, every
\* stored persona has status draft or training; a persona enters the store
\* as draft, whatever the create request carries; a train request naming a
\* stored persona's identifier leaves it training; a persona that is
\* training is still training after the step; trained and error never occur.
C1_StatusMachine == [][StatusStep(db, db', req')]_vars

\* a persona created from a body that asked for status "trained" was stored
\* as draft, was trained, and stayed training through a second train request
C1_Witness ==
    /\ Len(db["trainingjob"]) >= 2
    /\ \E i \in 1..Len(Personas(db)) :
          /\ Val(Personas(db)[i])["owner_email"] = Str("b@x.com")
          /\ StatusOf(Personas(db)[i]) = Str("training")

TrainStep(d, e, id, rq, rs) ==
    rq.op = "start_training" /\ Validates(TrainRequest, Body(rq)) =>
        LET pid == Body(rq)["persona_id"]
            jobs == e["trainingjob"]
        IN /\ rs.code = 200
           /\ Body(rs) = ("job_id" :> Str(OidStr(id)) @@ "status" :> Str("queued"))
           /\ Len(jobs) = Len(d["trainingjob"]) + 1
           /\ SubSeq(jobs, 1, Len(jobs) - 1) = d["trainingjob"]
           /\ Val(jobs[Len(jobs)])["_id"] = Oid(id)
           /\ Val(jobs[Len(jobs)])["persona_id"] = pid
           /\ Val(jobs[Len(jobs)])["status"] = Str("queued")

\* C2: POST /api/train with a well-formed body always answers 200 with
\* {job_id, status: "queued"}: whether persona_id names a stored persona,
\* is well-formed but names none, or is malformed, exactly one TrainingJob
\* with status queued and that persona_id is inserted, and no failure of the
\* persona update reaches the caller.
C2_TrainAlways200 == [][TrainStep(db, db', nextId, req', resp')]_vars

\* a train request with a malformed persona_id was answered 200
C2_Witness ==
    /\ req.op = "start_training"
    /\ HasStrField(Body(req), "persona_id")
    /\ ~OidValid(Val(Body(req)["persona_id"]))
    /\ resp.code = 200
    /\ Len(db["trainingjob"]) >= 1
    /\ Val(db["trainingjob"][Len(db["trainingjob"])])["persona_id"] = Body(req)["persona_id"]

\* a document of the persona collection with its status taken out
WithoutStatus(doc) == [k \in DOMAIN Val(doc) \ {"status"} |-> Val(doc)[k]]

FrameStep(d, e, rq) ==
    /\ \A c \in Collections :
          /\ Len(e[c]) >= Len(d[c])
          /\ \A i \in 1..Len(d[c]) :
                IF c = "persona"
                THEN /\ WithoutStatus(e[c][i]) = WithoutStatus(d[c][i])
                     /\ (e[c][i] /= d[c][i] => rq.op = "start_training")
                ELSE e[c][i] = d[c][i]
    /\ \A i \in 1..Len(e["trainingjob"]) :
          Val(e["trainingjob"][i])["status"] = Str("queued")

\* C10: the store is append-only except for Persona.status.  Over every
\* step no document is deleted, every TrainingJob has status queued, every
\* Professional, Source, TrainingJob and Conversation document stays as it
\* was created, and the only change to a stored document is to the status
\* of a Persona, made by the train endpoint.
C10_AppendOnly == [][FrameStep(db, db', req')]_vars

\* a conversation and its persona's other fields survived a train request
\* that changed the persona's status
C10_Witness ==
    /\ req.op = "start_training"
    /\ Len(db["conversation"]) >= 1
    /\ \E i \in 1..Len(Personas(db)) : StatusOf(Personas(db)[i]) = Str("training")

ChatMalformedStep(d, e, rq, rs) ==
    /\ rq.op = "chat"
    /\ Validates(ChatRequest, Body(rq))
    /\ ~OidValid(Val(Body(rq)["persona_id"]))
    => /\ rs = HTTPException(404, "Persona not found")
       /\ e = d

\* C3: POST /api/chat with a persona_id that is not a valid identifier
\* format is answered like one that names no persona: 404 with detail
\* "Persona not found", and no Conversation is persisted.
C3_ChatMalformedIs404 == [][ChatMalformedStep(db, db', req', resp')]_vars

ChatMissingStep(d, e, id, idAfter, rq, rs) ==
    /\ rq.op = "chat"
    /\ Validates(ChatRequest, Body(rq))
    /\ OidValid(Val(Body(rq)["persona_id"]))
    /\ Resolves(d, Val(Body(rq)["persona_id"])) = {}
    => /\ rs = HTTPException(404, "Persona not found")
       /\ e = d
       /\ idAfter = id

\* C4: POST /api/chat with a well-formed persona_id that matches no stored
\* persona answers 404 with detail "Persona not found" and leaves the store
\* as it was: no Conversation is inserted and no persona is modified.
C4_ChatMissingIs404 == [][ChatMissingStep(db, db', nextId, nextId', req', resp')]_vars

\* a chat naming the identifier of a stored conversation (no persona) got 404
C4_Witness ==
    /\ req.op = "chat"
    /\ resp.code = 404
    /\ \E i \in 1..Len(db["conversation"]) :
          Str(OidStr(Val(Val(db["conversation"][i])["_id"]))) = Body(req)["persona_id"]

\* the message from its first to its last character that is not whitespace
Trimmed(m) ==
    LET inked == {k \in 1..Len(m) : CharAt(m, k) \notin Whitespace} IN
    IF inked = {} THEN ""
    ELSE SubSeq(m, CHOOSE i \in inked : \A k \in inked : i <= k,
                   CHOOSE j \in inked : \A k \in inked : k <= j)

\* a stored text field as it reads in the reply (a stored null reads "None")
Shown(v) == IF IsNone(v) THEN "None" ELSE Val(v)

\* the reply as the specification composes it
SpecifiedReply(persona, message) ==
    LET title == IF "title" \in DOMAIN Val(persona)
                 THEN Shown(Val(persona)["title"]) ELSE "Your AI Coach"
        tone == IF "tone" \in DOMAIN Val(persona)
                THEN Shown(Val(persona)["tone"]) ELSE "helpful, concise, expert"
        specialties == IF "specialties" \in DOMAIN Val(persona)
                       THEN Val(Val(persona)["specialties"]) ELSE <<>>
    IN "[" \o title \o "] Tone: " \o tone \o ". "
       \o (IF specialties /= <<>>
           THEN "Expertise: " \o Join(", ", specialties) \o "."
           ELSE "")
       \o " Here's my take: " \o Trimmed(message)
       \o " -> Consider breaking this down into steps, validate with examples, and iterate."

CareerCoachReply ==
    "[Career Coach] Tone: direct, supportive. Expertise: resumes, interviews. Here's my take: help me rewrite my resume -> Consider breaking this down into steps, validate with examples, and iterate."

ChatReplyStep(d, e, id, rq, rs) ==
    rq.op = "chat" /\ rs.code = 200 =>
        LET pid == Body(rq)["persona_id"]
            message == Body(rq)["message"]
            hits == Resolves(d, Val(pid))
            persona == Personas(d)[CHOOSE i \in hits : \A j \in hits : i <= j]
            reply == SpecifiedReply(persona, Val(message))
        IN /\ hits /= {}
           /\ Body(rs) = ("response" :> Str(reply))
           /\ e = [d EXCEPT !["conversation"] =
                      Append(@, Dict("_id" :> Oid(id) @@ "persona_id" :> pid
                                     @@ "user_message" :> message
                                     @@ "response" :> Str(reply)))]
           /\ (/\ Get(persona, "title", None) = Str("Career Coach")
               /\ message = Str("  help me rewrite my resume  ")
               => reply = CareerCoachReply)

\* C6: a successful POST /api/chat returns "[" + title + "] Tone: " + tone +
\* ". " + ("Expertise: " + specialties joined by ", " + "." when there are
\* specialties) + " Here's my take: " + the trimmed message + " -> Consider
\* breaking this down into steps, validate with examples, and iterate.",
\* with title "Your AI Coach" and tone "helpful, concise, expert" when the
\* stored persona lacks the field, and persists exactly one Conversation
\* holding the persona_id, the untrimmed message and exactly that reply.
\* (A tone stored as null is present, not absent: it reads "None".)
C6_ChatReply == [][ChatReplyStep(db, db', nextId, req', resp')]_vars

\* a chat with a padded message against the persona that has neither title
\* nor tone, named by an upper-case identifier string, was answered 200
C6_Witness ==
    /\ req.op = "chat"
    /\ resp.code = 200
    /\ Body(req) = ("persona_id" :> Str("00000000000000000000000A")
                    @@ "message" :> Str("  help me rewrite my resume  "))
    /\ Len(db["conversation"]) >= 1

\* the request's persona_id is empty or absent
NoPersonaId(fields) == "persona_id" \notin DOMAIN fields \/ fields["persona_id"] = Str("")

SourceRejectedFirstStep(d, e, rq, rs) ==
    rq.op = "add_source" /\ NoPersonaId(Body(rq)) =>
        /\ rs = HTTPException(400, "persona_id required")
        /\ e = d

SourceRejectedStep(d, e, rq, rs) ==
    rq.op = "add_source" /\ NoPersonaId(Body(rq)) =>
        /\ e = d
        /\ IF Validates(SourceCreate, Body(rq))
           THEN rs = HTTPException(400, "persona_id required")
           ELSE rs = RequestValidationError

Rendered(doc) == Dict([Val(doc) EXCEPT !["_id"] = Str(OidStr(Val(@)))])

OwnedBy(d, owner) ==
    SelectSeq(Personas(d), LAMBDA doc : Val(doc)["owner_email"] = owner)

FirstOf(docs, limit) ==
    [i \in 1..(IF limit < Len(docs) THEN limit ELSE Len(docs)) |-> Rendered(docs[i])]

QueryLimit(q) == IF "limit" \in DOMAIN q THEN Val(q["limit"]) ELSE 20

ListGivenStep(d, e, rq, rs) ==
    rq.op = "list_personas" =>
        /\ e = d
        /\ rs.code = 200
        /\ Body(rs) = ("items" :> List(
              IF "owner_email" \in DOMAIN Body(rq)
              THEN FirstOf(OwnedBy(d, Body(rq)["owner_email"]), QueryLimit(Body(rq)))
              ELSE FirstOf(Personas(d), QueryLimit(Body(rq)))))

\* C7 as stated: GET /api/personas with owner_email given returns exactly
\* the personas whose owner_email equals it, in insertion order, capped at
\* limit (default 20); with no owner_email it returns the first
\* min(limit, total) personas; the listing leaves the store unchanged.
C7_Original == [][ListGivenStep(db, db', req', resp')]_vars

ListStep(d, e, rq, rs) ==
    rq.op = "list_personas" =>
        /\ e = d
        /\ rs.code = 200
        /\ Body(rs) = ("items" :> List(
              IF "owner_email" \in DOMAIN Body(rq) /\ Body(rq)["owner_email"] /= Str("")
              THEN FirstOf(OwnedBy(d, Body(rq)["owner_email"]), QueryLimit(Body(rq)))
              ELSE FirstOf(Personas(d), QueryLimit(Body(rq)))))

\* C7 as amended: GET /api/personas with a non-empty owner_email returns
\* exactly the personas whose owner_email equals it, in insertion order,
\* capped at limit (default 20); with no owner_email, or with an empty one,
\* it returns the first min(limit, total) personas unfiltered; the listing
\* leaves the store unchanged.
C7_Listing == [][ListStep(db, db', req', resp')]_vars

\* personas of a@x.com, a@x.com and b@x.com are stored and a listing for
\* a@x.com with no limit returned two items
C7_Witness ==
    /\ req.op = "list_personas"
    /\ Body(req) = ("owner_email" :> Str("a@x.com"))
    /\ Len(Personas(db)) = 3
    /\ Val(Personas(db)[3])["owner_email"] = Str("b@x.com")
    /\ Len(Val(Body(resp)["items"])) = 2

RECURSIVE ContainsOid(_)
ContainsOid(v) ==
    \/ IsOid(v)
    \/ IsList(v) /\ \E i \in 1..Len(Val(v)) : ContainsOid(Val(v)[i])
    \/ IsDict(v) /\ \E k \in DOMAIN Val(v) : ContainsOid(Val(v)[k])

\* every identifier, wherever it stands, replaced by its string rendering
RECURSIVE Stringified(_)
Stringified(v) ==
    IF IsOid(v) THEN Str(OidStr(Val(v)))
    ELSE IF IsList(v) THEN List([i \in 1..Len(Val(v)) |-> Stringified(Val(v)[i])])
    ELSE IF IsDict(v) THEN Dict([k \in DOMAIN Val(v) |-> Stringified(Val(v)[k])])
    ELSE v

\* C8: ObjectIdEncoder.encode replaces every identifier value anywhere in
\* its input (a map value, an element of a sequence at any depth, or the
\* top-level value) by its string rendering, so that no identifier remains
\* in the output, and passes every other value through unchanged.
C8_EncodesEveryId ==
    encPc /= "start" => encOut = Stringified(encIn) /\ ~ContainsOid(encOut)

RECURSIVE SameShape(_, _)
SameShape(v, w) ==
    IF IsList(v)
    THEN /\ IsList(w)
         /\ Len(Val(w)) = Len(Val(v))
         /\ \A i \in 1..Len(Val(v)) : SameShape(Val(v)[i], Val(w)[i])
    ELSE IF IsDict(v)
    THEN /\ IsDict(w)
         /\ DOMAIN Val(w) = DOMAIN Val(v)
         /\ \A k \in DOMAIN Val(v) : SameShape(Val(v)[k], Val(w)[k])
    ELSE ~IsList(w) /\ ~IsDict(w) /\ (~IsOid(v) => w = v)

\* C9: ObjectIdEncoder.encode is idempotent and structure-preserving: for
\* every nesting of maps, sequences and scalars, empty collections
\* included, encoding the encoded value gives the encoded value, and the
\* encoded value has the key sets, sequence lengths and element order of
\* the input.
C9_EncodeIdempotent ==
    /\ encPc /= "start" => SameShape(encIn, encOut)
    /\ encPc = "twice" => encTwice = encOut

\* encoded twice: a sequence of a map that holds an identifier and of an
\* empty sequence
C9_Witness ==
    /\ encPc = "twice"
    /\ encIn = List(<<Dict("_id" :> Oid(1) @@ "k" :> None), List(<<>>)>>)
    /\ encOut /= encIn

====
